---- MODULE Spec2Model ----
(***************************************************************************)
(* A model of the website summariser pipeline:                             *)
(*   - WebsiteDataExtractor  (src/extract_website.py), the bounded         *)
(*     recursive crawler;                                                  *)
(*   - WebDataVectorizer     (src/vectorize.py), text cleaning and the     *)
(*     nearest-neighbour index;                                            *)
(*   - ChromaDBVectorStore   (src/store_vectors.py), batched persistence   *)
(*     and deletion.                                                       *)
(* Strings are sequences: a URL is a sequence of lexical tokens            *)
(* (scheme, ":", "//", netloc, path), a text is a sequence of characters.  *)
(***************************************************************************)
EXTENDS Integers, Sequences, FiniteSets, TLC

VARIABLES
    \* ---- WebsiteDataExtractor ----
    site,            \* the web: URL -> the anchors and images of its page
    max_depth,       \* self.max_depth
    max_pages,       \* self.max_pages
    visited_urls,    \* self.visited_urls
    extracted_data,  \* contents of the dict object held by self.extracted_data
    stack,           \* call stack of recursive_crawl, innermost call first
    phase,           \* "idle" | "crawling": is extract_website_data running
    crawls,          \* number of extract_website_data calls started
    start_url,       \* argument of the running / last extract_website_data
    fails,           \* URLs whose GET raises RequestException in this crawl
    fetchLog,        \* history: URLs passed to requests.get, in order
    visitOrder,      \* history: <<url, depth>> in the order URLs were marked
    results,         \* the CrawlResult dicts returned so far
    asReturned,      \* history: what each CrawlResult showed when returned
    raised,          \* the last extract_website_data call ended by an exception
    \* ---- WebDataVectorizer ----
    text_in,         \* argument of the last preprocess_text call
    cleaned_text,    \* its return value
    faiss_index,     \* self.faiss_index: None or the list of indexed vectors
    lastVectorize,   \* outcome of the last vectorize_website_data call
    vecCalls,        \* number of vectorize_website_data calls made
    lastSearch,      \* outcome of the last similarity_search call
    \* ---- ChromaDBVectorStore ----
    collection,      \* documents held by self.collection
    nextId,          \* source of fresh uuid4 values
    pending,         \* vector_documents of the running store_vectors call
    batch_start,     \* loop variable of store_vectors
    addCalls,        \* history: the batches passed to collection.add
    countBefore,     \* history: collection.count() when store_vectors began
    storePc,         \* "idle" | "storing" | "stored"
    lastDelete       \* arguments and outcome of the last delete_vectors call

crawlVars == <<site, max_depth, max_pages, visited_urls, extracted_data, stack,
               phase, crawls, start_url, fails, fetchLog, visitOrder,
               results, asReturned, raised>>
vecVars   == <<text_in, cleaned_text, faiss_index, lastVectorize, vecCalls,
               lastSearch>>
storeVars == <<collection, nextId, pending, batch_start, addCalls, countBefore,
               storePc, lastDelete>>
vars      == <<crawlVars, vecVars, storeVars>>

None == "None"

Range(s) == {s[i] : i \in DOMAIN s}

Min(a, b) == IF a < b THEN a ELSE b

Prefix(s, n) == SubSeq(s, 1, Min(n, Len(s)))

(***************************************************************************)
(* Bounds of the model.                                                    *)
(***************************************************************************)
MaxDepthBound == 2
MaxPagesBound == 3
MaxCrawls     == 2

(***************************************************************************)
(* URLs.                                                                   *)
(***************************************************************************)
Url(scheme, netloc, path) == <<scheme, ":", "//", netloc, path>>

HomeA  == Url("http", "a.com", "/")
PageB  == Url("http", "a.com", "/b")
PageC  == Url("http", "a.com", "/c")
PageD  == Url("http", "a.com", "/d")
HomeX  == Url("http", "b.org", "/")
PageXY == Url("http", "b.org", "/y")
PortA  == Url("http", "a.com:8080", "/")
HttpsB == Url("https", "a.com", "/b")
HttpsC == Url("https", "a.com", "/c")
FtpA   == Url("ftp", "a.com", "/f")
MailA  == <<"mailto", ":", "x@a.com">>
BadHost == Url("http", "[", "/")
BadSrc  == <<"//", "[x">>

AllUrls == {HomeA, PageB, PageC, PageD, HomeX, PageXY, PortA, HttpsB, HttpsC,
            FtpA, MailA, BadHost}

\* the netlocs of the model with "[" and no "]"
UnbalancedBracket == {"[", "[x"}

\* urllib.parse.urlparse, the two components the crawler reads
urlparse(url) ==
    LET scheme == IF Len(url) >= 2 /\ url[2] = ":" THEN url[1] ELSE ""
        rest   == IF scheme # "" THEN SubSeq(url, 3, Len(url)) ELSE url
        netloc == IF Len(rest) >= 2 /\ rest[1] = "//" THEN rest[2] ELSE ""
    IN  [scheme |-> scheme, netloc |-> netloc]

\* urlsplit raises ValueError("Invalid IPv6 URL") on such a netloc
urlparse_raises(url) == urlparse(url).netloc \in UnbalancedBracket

\* urllib.parse.urljoin for empty, absolute, protocol-relative and
\* absolute-path hrefs
urljoin(base, href) ==
    LET b == urlparse(base)
    IN  IF href = << >> THEN base
        ELSE IF urlparse(href).scheme # "" THEN href
        ELSE IF Len(href) >= 1 /\ href[1] = "//" THEN <<b.scheme, ":">> \o href
        ELSE <<b.scheme, ":", "//", b.netloc>> \o href

\* urljoin parses both arguments unless one of them is empty
urljoin_raises(base, href) ==
    href # << >> /\ (urlparse_raises(base) \/ urlparse_raises(href))

(***************************************************************************)
(* The sites crawled: what each URL serves.  A page is the href attributes *)
(* of its anchors that have one and the src attributes of its images, each *)
(* in document order; an empty attribute, and the src of an image that has *)
(* none, is << >>.  URLs not listed serve a page with no anchors and no    *)
(* images.                                                                 *)
(***************************************************************************)
Page(hrefs, srcs) == [a |-> hrefs, img |-> srcs]

Anchors(hrefs) == Page(hrefs, << >>)

TreeSite ==
    [u \in AllUrls |->
        CASE u = HomeA -> Anchors(<< <<"/b">>, <<"/c">> >>)
          [] u = PageB -> Anchors(<< <<"/d">> >>)
          [] OTHER     -> Anchors(<< >>)]

ChainSite ==
    [u \in AllUrls |->
        CASE u = HomeA -> Anchors(<< <<"/b">> >>)
          [] u = PageB -> Anchors(<< <<"/c">> >>)
          [] u = PageC -> Anchors(<< <<"/d">> >>)
          [] u = PageD -> Anchors(<< <<"/">> >>)
          [] OTHER     -> Anchors(<< >>)]

CyclicSite ==
    [u \in AllUrls |->
        CASE u = HomeA -> Anchors(<< <<"/">>, <<"/b">>, <<"/b">>, <<"/c">> >>)
          [] u = PageB -> Anchors(<< HomeA, <<"/b">>, <<"/c">> >>)
          [] u = PageC -> Anchors(<< <<"/b">>, <<"/d">> >>)
          [] OTHER     -> Anchors(<< >>)]

MixedSite ==
    [u \in AllUrls |->
        CASE u = HomeA -> Page(<< HomeX, <<"//", "b.org", "/y">>, << >>, <<"/b">>,
                                  PortA, FtpA, MailA, <<"/c">> >>,
                               << << >>, <<"/d">> >>)
          [] u = PageB -> Anchors(<< HomeX, HttpsB, <<"/c">> >>)
          [] u = HomeX -> Anchors(<< <<"/y">>, HomeA >>)
          [] u = HttpsB -> Anchors(<< <<"/c">> >>)
          [] u = PageXY -> Anchors(<< <<"/">>, PageB >>)
          [] OTHER     -> Anchors(<< >>)]

\* pages with an href or a src that urljoin cannot parse
BrokenSite ==
    [u \in AllUrls |->
        CASE u = HomeA -> Page(<< << >>, <<"/b">>, <<"/c">> >>, << << >> >>)
          [] u = PageB -> Page(<< <<"/d">> >>, << BadSrc >>)
          [] u = PageC -> Anchors(<< BadHost, <<"/d">> >>)
          [] u = HomeX -> Anchors(<< <<"/y">> >>)
          [] u = PageXY -> Anchors(<< <<"//", "[", "/">>, <<"/">> >>)
          [] OTHER     -> Anchors(<< >>)]

Sites == {TreeSite, ChainSite, CyclicSite, MixedSite, BrokenSite}

StartUrls == {HomeA, PageB, HomeX, BadHost}

FailSets == SUBSET {HomeA, PageB, PageC}

(***************************************************************************)
(* WebsiteDataExtractor                                                    *)
(***************************************************************************)
EmptyDict == [u \in {} |-> None]

DictPut(d, k, v) == [u \in (DOMAIN d) \cup {k} |-> IF u = k THEN v ELSE d[u]]

\* the one dict object created in __init__ and never rebound
DictRef == "self.extracted_data"

Deref(ref) == extracted_data

\* is_valid_url without the netloc comparison
is_valid_url_any_domain(url, base_domain) ==
    LET parsed_url == urlparse(url)
    IN  /\ ~urlparse_raises(url)
        /\ parsed_url.scheme \in {"http", "https"}
        /\ url \notin visited_urls

\* False when urlparse raises ("except Exception: return False")
is_valid_url(url, base_domain) ==
    LET parsed_url == urlparse(url)
    IN  /\ ~urlparse_raises(url)
        /\ parsed_url.scheme \in {"http", "https"}
        /\ parsed_url.netloc = base_domain
        /\ url \notin visited_urls

\* "if link.get('href')": the anchor has a non-empty href
HasHref(href) == href # << >>

\* the links comprehension of extract_page_data
PageLinks(url) ==
    LET hrefs == SelectSeq(site[url].a, HasHref)
    IN  [i \in 1..Len(hrefs) |-> urljoin(url, hrefs[i])]

\* the images comprehension of extract_page_data, every img taken
PageImages(url) ==
    [i \in 1..Len(site[url].img) |-> [src |-> urljoin(url, site[url].img[i])]]

\* one of the two comprehensions raises ValueError
PageRaises(url) ==
    \/ \E i \in DOMAIN site[url].a :
          HasHref(site[url].a[i]) /\ urljoin_raises(url, site[url].a[i])
    \/ \E i \in DOMAIN site[url].img : urljoin_raises(url, site[url].img[i])

\* returns None (here NoPage) when requests raises RequestException
NoPage == [raises |-> FALSE, none |-> TRUE]

\* an exception that is not a RequestException leaves extract_page_data
PageError == [raises |-> TRUE, none |-> FALSE]

extract_page_data(url) ==
    IF url \in fails THEN NoPage
    ELSE IF PageRaises(url) THEN PageError
    ELSE [raises |-> FALSE, none |-> FALSE, url |-> url,
          links |-> PageLinks(url), images |-> PageImages(url)]

\* the limit check with > in place of >= on the page count
LimitReachedOffByOne(current_depth, nvisited) ==
    current_depth > max_depth \/ nvisited > max_pages

LimitReached(current_depth, nvisited) ==
    current_depth > max_depth \/ nvisited >= max_pages

\* marking a URL visited only when its fetch is going to succeed
MarkVisitedOnSuccess(v, url) == IF url \in fails THEN v ELSE v \cup {url}

MarkVisited(v, url) == v \cup {url}

Frame(url, depth) ==
    [url |-> url, depth |-> depth, pc |-> "enter", base_domain |-> "",
     links |-> << >>, i |-> 1]

\* a nested call deferred until the pending calls are done (breadth-first)
PushCallBreadthFirst(stk, frame) == stk \o <<frame>>

\* the call stack after the running call makes a nested call
PushCall(stk, frame) == <<frame>> \o stk

\* a failed fetch unwinding every pending call
AbortCrawl(stk) == << >>

\* the call stack after extract_page_data returned None in the running call
AfterFailedFetch(stk) == Tail(stk)

LinkAt(links, i) == links[i]

\* the for loop moving on to the next link of page_data['links']
NextLink(i) == i + 1

InitCrawler ==
    /\ site \in Sites
    /\ max_depth \in 0..MaxDepthBound
    /\ max_pages \in 0..MaxPagesBound
    /\ visited_urls = {}
    /\ extracted_data = EmptyDict
    /\ stack = << >>
    /\ phase = "idle"
    /\ crawls = 0
    /\ start_url = << >>
    /\ fails = {}
    /\ fetchLog = << >>
    /\ visitOrder = << >>
    /\ results = << >>
    /\ asReturned = << >>
    /\ raised = FALSE

\* extract_website_data, up to the call of recursive_crawl
StartCrawl ==
    /\ phase = "idle"
    /\ crawls < MaxCrawls
    /\ \E s \in StartUrls, f \in FailSets :
          /\ start_url' = s
          /\ fails' = f
          /\ stack' = <<Frame(s, 0)>>
    /\ visited_urls' = {}
    /\ extracted_data' = EmptyDict
    /\ phase' = "crawling"
    /\ crawls' = crawls + 1
    /\ fetchLog' = << >>
    /\ visitOrder' = << >>
    /\ raised' = FALSE
    /\ UNCHANGED <<site, max_depth, max_pages, results, asReturned>>
    /\ UNCHANGED <<vecVars, storeVars>>

\* recursive_crawl from its entry to the call of extract_page_data
CrawlEnter ==
    /\ phase = "crawling"
    /\ stack # << >>
    /\ Head(stack).pc = "enter"
    /\ LET f == Head(stack)
       IN  IF LimitReached(f.depth, Cardinality(visited_urls))
           THEN /\ stack' = Tail(stack)
                /\ UNCHANGED <<visited_urls, visitOrder, phase, raised>>
           ELSE IF urlparse_raises(f.url)
           THEN \* ValueError out of every pending call and of
                \* extract_website_data
                /\ stack' = << >>
                /\ phase' = "idle"
                /\ raised' = TRUE
                /\ UNCHANGED <<visited_urls, visitOrder>>
           ELSE IF f.url \in visited_urls
           THEN /\ stack' = Tail(stack)
                /\ UNCHANGED <<visited_urls, visitOrder, phase, raised>>
           ELSE /\ visited_urls' = MarkVisited(visited_urls, f.url)
                /\ visitOrder' = Append(visitOrder, <<f.url, f.depth>>)
                /\ stack' = <<[f EXCEPT !.pc = "fetch",
                                        !.base_domain = urlparse(f.url).netloc]>>
                            \o Tail(stack)
                /\ UNCHANGED <<phase, raised>>
    /\ UNCHANGED <<site, max_depth, max_pages, extracted_data, crawls,
                   start_url, fails, fetchLog, results, asReturned>>
    /\ UNCHANGED <<vecVars, storeVars>>

\* recursive_crawl: extract_page_data and the store of its result
CrawlFetch ==
    /\ phase = "crawling"
    /\ stack # << >>
    /\ Head(stack).pc = "fetch"
    /\ LET f == Head(stack)
           page_data == extract_page_data(f.url)
       IN  /\ fetchLog' = Append(fetchLog, f.url)
           /\ IF page_data.raises
              THEN \* not caught in recursive_crawl nor in
                   \* extract_website_data
                   /\ stack' = << >>
                   /\ phase' = "idle"
                   /\ raised' = TRUE
                   /\ UNCHANGED extracted_data
              ELSE IF page_data.none
              THEN /\ stack' = AfterFailedFetch(stack)
                   /\ UNCHANGED <<extracted_data, phase, raised>>
              ELSE /\ extracted_data' = DictPut(extracted_data, f.url, page_data)
                   /\ stack' = <<[f EXCEPT !.pc = "loop",
                                           !.links = page_data.links,
                                           !.i = 1]>> \o Tail(stack)
                   /\ UNCHANGED <<phase, raised>>
    /\ UNCHANGED <<site, max_depth, max_pages, visited_urls, crawls,
                   start_url, fails, visitOrder, results, asReturned>>
    /\ UNCHANGED <<vecVars, storeVars>>

\* recursive_crawl: one iteration of the loop over page_data['links']
CrawlLink ==
    /\ phase = "crawling"
    /\ stack # << >>
    /\ Head(stack).pc = "loop"
    /\ LET f == Head(stack)
       IN  IF f.i > Len(f.links)
           THEN stack' = Tail(stack)
           ELSE LET link == LinkAt(f.links, f.i)
                    g == [f EXCEPT !.i = NextLink(f.i)]
                IN  IF is_valid_url(link, f.base_domain)
                       /\ link \notin visited_urls
                    THEN stack' = PushCall(<<g>> \o Tail(stack),
                                           Frame(link, f.depth + 1))
                    ELSE stack' = <<g>> \o Tail(stack)
    /\ UNCHANGED <<site, max_depth, max_pages, visited_urls, extracted_data,
                   phase, crawls, start_url, fails, fetchLog, visitOrder,
                   results, asReturned, raised>>
    /\ UNCHANGED <<vecVars, storeVars>>

\* extract_website_data: the return statement
CrawlReturn ==
    /\ phase = "crawling"
    /\ stack = << >>
    /\ phase' = "idle"
    /\ results' = Append(results,
                         [total_pages_scraped |-> Cardinality(DOMAIN extracted_data),
                          extracted_data |-> DictRef])
    /\ asReturned' = Append(asReturned,
                         [total_pages_scraped |-> Cardinality(DOMAIN extracted_data),
                          extracted_data |-> extracted_data])
    /\ UNCHANGED <<site, max_depth, max_pages, visited_urls, extracted_data,
                   stack, crawls, start_url, fails, fetchLog, visitOrder,
                   raised>>
    /\ UNCHANGED <<vecVars, storeVars>>

(***************************************************************************)
(* WebDataVectorizer.  A text is a sequence of one-character strings.      *)
(***************************************************************************)
MaxGap      == 2    \* longest run of whitespace in an input text
MaxTexts    == 2    \* longest list handed to preprocess_text
MaxVecPages == 2    \* most pages in one vectorize_website_data input
MaxVecCalls == 3    \* vectorize_website_data calls in one behaviour
MinTextLen  == 10   \* the literal of "len(t) > 10"

UpperChars == <<"A","B","C","D","E","F","G","H","I","J","K","L","M",
                "N","O","P","Q","R","S","T","U","V","W","X","Y","Z",
                "À","Á","Â","Ã","Ä","Å","Æ","Ç","È","É","Ê","Ë","Ì",
                "Í","Î","Ï","Ð","Ñ","Ò","Ó","Ô","Õ","Ö","Ø","Ù","Ú",
                "Û","Ü","Ý","Þ">>
LowerChars == <<"a","b","c","d","e","f","g","h","i","j","k","l","m",
                "n","o","p","q","r","s","t","u","v","w","x","y","z",
                "à","á","â","ã","ä","å","æ","ç","è","é","ê","ë","ì",
                "í","î","ï","ð","ñ","ò","ó","ô","õ","ö","ø","ù","ú",
                "û","ü","ý","þ">>

\* str.lower on one character: the letters A to Z and the accented capitals
\* of code points 192 to 222
LowerChar(c) ==
    IF \E i \in DOMAIN UpperChars : UpperChars[i] = c
    THEN LowerChars[CHOOSE i \in DOMAIN UpperChars : UpperChars[i] = c]
    ELSE c

\* str.lower
Lower(t) == [i \in DOMAIN t |-> LowerChar(t[i])]

\* The characters of the model are those of code point below 256.  Of them
\* str.split() separates on: space, tab, line feed, carriage return, form
\* feed, vertical tab (11), the separators FS, GS, RS, US (28 to 31), next
\* line (133) and no-break space (160).
Whitespace ==
    {" ", "\t", "\n", "\r", "\f", "", "", "", "", "",
     "", " "}

\* str.isspace on one character
IsSpace(c) == c \in Whitespace

\* str.split(): the maximal runs of non-whitespace characters, in order
RECURSIVE SplitFrom(_, _, _)
SplitFrom(t, word, words) ==
    IF t = << >>
    THEN IF word = << >> THEN words ELSE Append(words, word)
    ELSE IF IsSpace(Head(t))
    THEN SplitFrom(Tail(t), << >>,
                   IF word = << >> THEN words ELSE Append(words, word))
    ELSE SplitFrom(Tail(t), Append(word, Head(t)), words)

Split(t) == SplitFrom(t, << >>, << >>)

\* ' '.join(words)
RECURSIVE JoinSpace(_)
JoinSpace(words) ==
    IF words = << >> THEN << >>
    ELSE IF Len(words) = 1 THEN words[1]
    ELSE words[1] \o <<" ">> \o JoinSpace(Tail(words))

\* ' '.join(t.lower().split())
Normalize(t) == JoinSpace(Split(Lower(t)))

\* the filter of preprocess_text on the normalized length
KeepTextNormalized(t) == t # << >> /\ Len(Normalize(t)) > MinTextLen

\* "if t and len(t) > 10"
KeepText(t) == t # << >> /\ Len(t) > MinTextLen

RECURSIVE CleanList(_)
CleanList(text) ==
    IF text = << >> THEN << >>
    ELSE (IF KeepText(Head(text)) THEN <<Normalize(Head(text))>> ELSE << >>)
         \o CleanList(Tail(text))

\* arg is [is_str |-> BOOLEAN, value |-> a text or a list of texts]
preprocess_text(arg) ==
    LET text == IF arg.is_str THEN <<arg.value>> ELSE arg.value
    IN  CleanList(text)

\* input texts: two words around a run of whitespace
WordAb    == <<"A", "b">>
WordHello == <<"H", "e", "l", "l", "o", "W", "O", "R", "L", "D">>
Words     == {<< >>, WordAb, WordHello}

Gap(n) == [i \in 1..n |-> IF i % 2 = 1 THEN " " ELSE "\t"]

\* a Windows line end
CrLf == <<"\r", "\n">>

Gaps == {Gap(g) : g \in 0..MaxGap} \cup {CrLf}

Texts == {w1 \o gap \o w2 : w1 \in Words, w2 \in Words, gap \in Gaps}

TextLists == UNION {[1..n -> Texts] : n \in 0..MaxTexts}

CleanArgs == {[is_str |-> FALSE, value |-> l] : l \in TextLists}
             \cup {[is_str |-> TRUE, value |-> t] : t \in Texts}

NoReturn == [returned |-> FALSE]

InitClean ==
    /\ text_in \in CleanArgs
    /\ cleaned_text = NoReturn
    /\ faiss_index = [built |-> FALSE]
    /\ lastVectorize = [status |-> "never"]
    /\ vecCalls = 0
    /\ lastSearch = [status |-> "never"]

(***************************************************************************)
(* The vectorization pipeline.  A page of the input is a record            *)
(* [metadata, paragraphs, headings, links]; a dict is the sequence of its   *)
(* items in insertion order.                                               *)
(***************************************************************************)
MaxTopK == 2    \* largest top_k handed to similarity_search

KeyTitle == <<"t", "i", "t", "l", "e">>
LinkText == <<"h","t","t","p",":","/","/","a",".","c","o","m","/","b">>

Str(t)  == [is_str |-> TRUE, value |-> t]
NotStr  == [is_str |-> FALSE]

NoHeadings == [h1 |-> << >>, h2 |-> << >>, h3 |-> << >>]

BlankPage ==
    [metadata |-> << <<KeyTitle, NotStr>> >>, paragraphs |-> << >>,
     headings |-> NoHeadings, links |-> << >>]

ShortPage ==
    [metadata |-> << <<KeyTitle, Str(WordAb)>> >>, paragraphs |-> <<WordAb>>,
     headings |-> [h1 |-> <<WordHello>>, h2 |-> << >>, h3 |-> << >>],
     links |-> << >>]

LongPage ==
    [metadata |-> << <<KeyTitle, Str(WordHello)>> >>,
     paragraphs |-> <<WordHello \o <<" ">> \o WordAb, WordAb>>,
     headings |-> [h1 |-> << >>, h2 |-> <<WordHello \o WordHello>>, h3 |-> << >>],
     links |-> <<LinkText>>]

OtherPage ==
    [metadata |-> << >>, paragraphs |-> <<WordAb \o Gap(2) \o WordHello>>,
     headings |-> NoHeadings, links |-> << >>]

VecPages == {BlankPage, ShortPage, LongPage, OtherPage}

VecInputs == UNION {[1..n -> VecPages] : n \in 0..MaxVecPages}

Queries == {WordAb, WordHello \o <<" ">> \o WordHello}

ContentTypes == <<"metadata", "paragraphs", "headings", "links">>

RECURSIVE MetadataTexts(_)
MetadataTexts(items) ==
    IF items = << >> THEN << >>
    ELSE LET key == Head(items)[1]
             value == Head(items)[2]
         IN  (IF value.is_str THEN <<key \o <<":", " ">> \o value.value>>
              ELSE << >>) \o MetadataTexts(Tail(items))

RECURSIVE extract_vectorizable_content(_)
extract_vectorizable_content(pages) ==
    IF pages = << >>
    THEN [metadata |-> << >>, paragraphs |-> << >>, headings |-> << >>,
          links |-> << >>]
    ELSE LET page_data == pages[Len(pages)]
             c == extract_vectorizable_content(SubSeq(pages, 1, Len(pages) - 1))
         IN  [metadata   |-> c.metadata \o MetadataTexts(page_data.metadata),
              paragraphs |-> c.paragraphs \o page_data.paragraphs,
              headings   |-> c.headings \o page_data.headings.h1
                             \o page_data.headings.h2 \o page_data.headings.h3,
              links      |-> c.links \o page_data.links]

\* the embedding model: one fixed-dimension vector per text
CountSpaces(t) == Cardinality({i \in DOMAIN t : t[i] = " "})

encode(texts) == [i \in DOMAIN texts |-> <<Len(texts[i]), CountSpaces(texts[i])>>]

RECURSIVE EmbedTypes(_, _)
EmbedTypes(content, types) ==
    IF types = << >> THEN << >>
    ELSE LET content_type == Head(types)
             cleaned_texts ==
                 preprocess_text([is_str |-> FALSE, value |-> content[content_type]])
         IN  (IF cleaned_texts # << >>
              THEN << [content_type |-> content_type, texts |-> cleaned_texts,
                       vectors |-> encode(cleaned_texts)] >>
              ELSE << >>) \o EmbedTypes(content, Tail(types))

generate_embeddings(content) == EmbedTypes(content, ContentTypes)

\* np.concatenate over the buckets' vectors
RECURSIVE Concatenate(_)
Concatenate(embeddings) ==
    IF embeddings = << >> THEN << >>
    ELSE Head(embeddings).vectors \o Concatenate(Tail(embeddings))

\* np.concatenate raises ValueError when handed no array
ConcatenateRaises(embeddings) == embeddings = << >>

\* squared L2 distance
RECURSIVE SqDist(_, _)
SqDist(v, q) ==
    IF v = << >> THEN 0
    ELSE (Head(v) - Head(q)) * (Head(v) - Head(q)) + SqDist(Tail(v), Tail(q))

\* IndexFlatL2.search: the top_k nearest positions (0-based), -1 where the
\* index holds fewer vectors
RECURSIVE IndexSearch(_, _, _, _)
IndexSearch(vectors, q, top_k, found) ==
    IF Len(found) = top_k THEN found
    ELSE LET left == {i \in DOMAIN vectors : (i - 1) \notin Range(found)}
         IN  IF left = {} THEN IndexSearch(vectors, q, top_k, Append(found, -1))
             ELSE LET best == CHOOSE i \in left : \A j \in left :
                                 \/ SqDist(vectors[i], q) < SqDist(vectors[j], q)
                                 \/ /\ SqDist(vectors[i], q) = SqDist(vectors[j], q)
                                    /\ i <= j
                  IN  IndexSearch(vectors, q, top_k, Append(found, best - 1))

\* self.faiss_index = None
NoIndex == [built |-> FALSE]

InitVecIdle ==
    /\ text_in = [is_str |-> FALSE, value |-> << >>]
    /\ cleaned_text = NoReturn
    /\ faiss_index = NoIndex
    /\ lastVectorize = [status |-> "never"]
    /\ vecCalls = 0
    /\ lastSearch = [status |-> "never"]

InitCrawlerIdle ==
    /\ site = TreeSite
    /\ max_depth = 0
    /\ max_pages = 0
    /\ visited_urls = {}
    /\ extracted_data = EmptyDict
    /\ stack = << >>
    /\ phase = "idle"
    /\ crawls = 0
    /\ start_url = << >>
    /\ fails = {}
    /\ fetchLog = << >>
    /\ visitOrder = << >>
    /\ results = << >>
    /\ asReturned = << >>
    /\ raised = FALSE

\* one call of preprocess_text
PreprocessText ==
    /\ ~cleaned_text.returned
    /\ cleaned_text' = [returned |-> TRUE, value |-> preprocess_text(text_in)]
    /\ UNCHANGED <<text_in, faiss_index, lastVectorize, vecCalls, lastSearch>>
    /\ UNCHANGED <<crawlVars, storeVars>>

\* one call of vectorize_website_data (create_faiss_index included)
VectorizeWebsiteData ==
    /\ vecCalls < MaxVecCalls
    /\ \E pages \in VecInputs :
          LET vectorizable_content == extract_vectorizable_content(pages)
              embeddings == generate_embeddings(vectorizable_content)
          IN  IF ConcatenateRaises(embeddings)
              THEN /\ lastVectorize' = [status |-> "ValueError", vectors |-> << >>]
                   /\ UNCHANGED faiss_index
              ELSE /\ faiss_index' = [built |-> TRUE,
                                      vectors |-> Concatenate(embeddings)]
                   /\ lastVectorize' = [status |-> "ok",
                                        vectors |-> Concatenate(embeddings)]
    /\ vecCalls' = vecCalls + 1
    /\ UNCHANGED <<text_in, cleaned_text, lastSearch>>
    /\ UNCHANGED <<crawlVars, storeVars>>

\* one call of similarity_search
SimilaritySearch ==
    /\ \E query \in Queries, top_k \in 1..MaxTopK :
          IF ~faiss_index.built
          THEN lastSearch' = [status |-> "ValueError", built |-> FALSE]
          ELSE lastSearch' =
                  [status |-> "ok", built |-> TRUE,
                   indices |-> IndexSearch(faiss_index.vectors,
                                           encode(<<query>>)[1], top_k, << >>)]
    /\ UNCHANGED <<text_in, cleaned_text, faiss_index, lastVectorize, vecCalls>>
    /\ UNCHANGED <<crawlVars, storeVars>>

(***************************************************************************)
(* ChromaDBVectorStore.  A stored document is [id, content_type, idx]: its *)
(* text and its source tag web_scrape_{content_type}_{idx} are determined  *)
(* by (content_type, idx).  An embeddings argument is the sequence of its  *)
(* buckets [content_type, n], n the number of (text, vector) pairs.        *)
(***************************************************************************)
MaxParagraphs == 250  \* most texts in the paragraphs bucket of one store call
MaxLinkTexts  == 1    \* most texts in the links bucket of one store call
MaxPersisted  == 3    \* most documents found in the collection at start
BatchSize     == 100  \* the step of range(0, len(vector_documents), 100)

EmbeddingArgs ==
    {<< [content_type |-> "paragraphs", n |-> a],
        [content_type |-> "links", n |-> b] >> :
        a \in 0..MaxParagraphs, b \in 0..MaxLinkTexts}

\* prepare_vectors: one document per (content_type, text, vector), ids fresh
RECURSIVE prepare_vectors(_, _)
prepare_vectors(embeddings, first_id) ==
    IF embeddings = << >> THEN << >>
    ELSE LET bucket == Head(embeddings)
         IN  [idx \in 1..bucket.n |->
                 [id |-> first_id + idx - 1,
                  content_type |-> bucket.content_type,
                  idx |-> idx - 1]]
             \o prepare_vectors(Tail(embeddings), first_id + bucket.n)

\* the documents an earlier run left in the persistent collection
PersistedDocs(k) ==
    {[id |-> i,
      content_type |-> IF i % 2 = 1 THEN "paragraphs" ELSE "links",
      idx |-> (i - 1) \div 2] : i \in 1..k}

\* a slice one document short
BatchSliceShort(docs, start) ==
    SubSeq(docs, start + 1, Min(start + BatchSize - 1, Len(docs)))

\* vector_documents[batch_start:batch_start+100]
BatchSlice(docs, start) ==
    SubSeq(docs, start + 1, Min(start + BatchSize, Len(docs)))

Ids(docs) == [i \in DOMAIN docs |-> docs[i].id]

\* collection.count()
get_collection_count == Cardinality(collection)

\* store_vectors up to the loop
StoreBegin ==
    /\ storePc = "idle"
    /\ \E embeddings \in EmbeddingArgs :
          /\ pending' = prepare_vectors(embeddings, nextId)
          /\ nextId' = nextId + Len(pending')
    /\ batch_start' = 0
    /\ addCalls' = << >>
    /\ countBefore' = get_collection_count
    /\ storePc' = "storing"
    /\ UNCHANGED <<collection, lastDelete>>
    /\ UNCHANGED <<crawlVars, vecVars>>

\* store_vectors: one iteration of the loop, one collection.add
StoreBatch ==
    /\ storePc = "storing"
    /\ batch_start < Len(pending)
    /\ LET batch == BatchSlice(pending, batch_start)
       IN  /\ collection' = collection \cup Range(batch)
           /\ addCalls' = Append(addCalls, Ids(batch))
    /\ batch_start' = batch_start + BatchSize
    /\ UNCHANGED <<nextId, pending, countBefore, storePc, lastDelete>>
    /\ UNCHANGED <<crawlVars, vecVars>>

\* store_vectors: the loop is over
StoreEnd ==
    /\ storePc = "storing"
    /\ batch_start >= Len(pending)
    /\ storePc' = "stored"
    /\ UNCHANGED <<collection, nextId, pending, batch_start, addCalls,
                   countBefore, lastDelete>>
    /\ UNCHANGED <<crawlVars, vecVars>>

(***************************************************************************)
(* delete_vectors.  An argument is [none |-> TRUE] for None, otherwise      *)
(* [none |-> FALSE, value |-> s]: s the list of ids, or the filter as the   *)
(* list of its <<key, value>> items.                                       *)
(***************************************************************************)
NoneArg == [none |-> TRUE]
Arg(v)  == [none |-> FALSE, value |-> v]

IdArgs == {NoneArg, Arg(<< >>), Arg(<<1>>), Arg(<<2, 3>>), Arg(<<7>>)}

FilterArgs == {NoneArg, Arg(<< >>),
               Arg(<< <<"content_type", "paragraphs">> >>),
               Arg(<< <<"content_type", "links">> >>)}

\* the test "is not None"
IsNotNone(arg) == ~arg.none

\* the truth value Python gives an argument in "if ids:" / "elif filter:"
Truthy(arg) == ~arg.none /\ Len(arg.value) > 0

\* collection.delete(ids=ids)
DeleteByIds(docs, ids) == {d \in docs : d.id \notin Range(ids)}

Matches(d, where) ==
    \A k \in DOMAIN where :
        where[k][1] = "content_type" /\ d.content_type = where[k][2]

\* collection.delete(where=filter)
DeleteByFilter(docs, where) == {d \in docs : ~Matches(d, where)}

DeleteVectors ==
    /\ storePc # "storing"
    /\ \E ids \in IdArgs, filter \in FilterArgs :
          IF Truthy(ids)
          THEN /\ collection' = DeleteByIds(collection, ids.value)
               /\ lastDelete' = [status |-> "ok", ids |-> ids, filter |-> filter,
                                 call |-> "ids", before |-> collection]
          ELSE IF Truthy(filter)
          THEN /\ collection' = DeleteByFilter(collection, filter.value)
               /\ lastDelete' = [status |-> "ok", ids |-> ids, filter |-> filter,
                                 call |-> "where", before |-> collection]
          ELSE /\ UNCHANGED collection
               /\ lastDelete' = [status |-> "ValueError", ids |-> ids,
                                 filter |-> filter, call |-> "none",
                                 before |-> collection]
    /\ UNCHANGED <<nextId, pending, batch_start, addCalls, countBefore, storePc>>
    /\ UNCHANGED <<crawlVars, vecVars>>

\* the collection as get_or_create_collection finds it
InitStore ==
    /\ \E k \in 0..MaxPersisted :
          /\ collection = PersistedDocs(k)
          /\ nextId = k + 1
    /\ pending = << >>
    /\ batch_start = 0
    /\ addCalls = << >>
    /\ countBefore = 0
    /\ storePc = "idle"
    /\ lastDelete = [status |-> "never"]

InitStoreIdle ==
    /\ collection = {}
    /\ nextId = 1
    /\ pending = << >>
    /\ batch_start = 0
    /\ addCalls = << >>
    /\ countBefore = 0
    /\ storePc = "idle"
    /\ lastDelete = [status |-> "never"]

Init == InitCrawler /\ InitVecIdle /\ InitStoreIdle

Next ==
    \/ StartCrawl
    \/ CrawlEnter
    \/ CrawlFetch
    \/ CrawlLink
    \/ CrawlReturn

Spec == Init /\ [][Next]_vars

\* The crawler is single-threaded and synchronous: while extract_website_data
\* runs, its next statement is executed, each fetch returning.  Whether the
\* caller ever starts a crawl is left open.
CrawlFairness ==
    /\ WF_vars(CrawlEnter)
    /\ WF_vars(CrawlFetch)
    /\ WF_vars(CrawlLink)
    /\ WF_vars(CrawlReturn)

SpecLive == Init /\ [][Next]_vars /\ CrawlFairness

\* preprocess_text on every input of the bounded set
InitCleanSpec == InitCrawlerIdle /\ InitClean /\ InitStoreIdle

NextClean == PreprocessText

SpecClean == InitCleanSpec /\ [][NextClean]_vars

\* a vectorizer object and the calls made on it
InitVecSpec == InitCrawlerIdle /\ InitVecIdle /\ InitStoreIdle

NextVec ==
    \/ VectorizeWebsiteData
    \/ SimilaritySearch

SpecVec == InitVecSpec /\ [][NextVec]_vars

\* a store object: one store_vectors call on the collection it found
InitStoreSpec == InitCrawlerIdle /\ InitVecIdle /\ InitStore

NextStore ==
    \/ StoreBegin
    \/ StoreBatch
    \/ StoreEnd

SpecStore == InitStoreSpec /\ [][NextStore]_vars

\* a store object and the delete_vectors calls made on it
NextDelete == DeleteVectors

SpecDelete == InitStoreSpec /\ [][NextDelete]_vars

(***************************************************************************)
(* Reference traversal: the depth-first pre-order over the links function  *)
(* L, where the pages in F cannot be fetched, without any page cap.        *)
(***************************************************************************)
RECURSIVE DfsOrder(_, _, _, _, _), DfsLinks(_, _, _, _, _, _)

DfsOrder(L, F, url, depth, acc) ==
    IF depth > max_depth \/ url \in Range(acc) THEN acc
    ELSE IF url \in F THEN Append(acc, url)
    ELSE DfsLinks(L, F, L[url], urlparse(url).netloc, depth, Append(acc, url))

DfsLinks(L, F, links, domain, depth, acc) ==
    IF links = << >> THEN acc
    ELSE LET link == Head(links)
             ok   == /\ urlparse(link).scheme \in {"http", "https"}
                     /\ urlparse(link).netloc = domain
                     /\ link \notin Range(acc)
         IN  DfsLinks(L, F, Tail(links), domain, depth,
                      IF ok THEN DfsOrder(L, F, link, depth + 1, acc) ELSE acc)

\* the links a page hands to the crawl: none when its extraction raises
RefLinks(u) == IF PageRaises(u) THEN << >> ELSE PageLinks(u)

ResolvedLinks == [u \in AllUrls |-> RefLinks(u)]

\* the site in which the pages that cannot be fetched have no links
LinksWithoutFailed ==
    [u \in AllUrls |-> IF u \in fails THEN << >> ELSE RefLinks(u)]

VisitedSeq == [i \in DOMAIN visitOrder |-> visitOrder[i][1]]

CrawlStarted == crawls > 0

\* the last extract_website_data call has returned its result
CrawlDone == phase = "idle" /\ crawls > 0 /\ ~raised

\* the last extract_website_data call was left by an exception
CrawlRaised == phase = "idle" /\ crawls > 0 /\ raised

Netlocs == {urlparse(u).netloc : u \in AllUrls}

(***************************************************************************)
(* Claims about the crawler.                                               *)
(***************************************************************************)

\* C1: the result never holds more than max_pages URLs, and every URL in it
\* was visited by recursive_crawl at a depth of at most max_depth.
C1_PageCapAndDepth ==
    /\ Cardinality(DOMAIN extracted_data) <= max_pages
    /\ Cardinality(visited_urls) <= max_pages
    /\ \A u \in DOMAIN extracted_data :
          \E i \in DOMAIN visitOrder :
              visitOrder[i][1] = u /\ visitOrder[i][2] <= max_depth
    /\ \A i \in DOMAIN results : results[i].total_pages_scraped <= max_pages

C1_Witness ==
    /\ CrawlDone
    /\ max_pages = 3 /\ max_depth = 2
    /\ Cardinality(DOMAIN extracted_data) = max_pages
    /\ \E i \in DOMAIN visitOrder : visitOrder[i][2] = max_depth
    /\ \E u \in DOMAIN extracted_data : \E k \in DOMAIN extracted_data[u].links :
          is_valid_url(extracted_data[u].links[k], urlparse(u).netloc)

\* C2: is_valid_url rejects every URL whose netloc differs from the base
\* domain, and every URL marked visited or stored has the netloc of the URL
\* the crawl started from.
C2_SameDomain ==
    /\ \A u \in AllUrls, d \in Netlocs :
          urlparse(u).netloc # d => ~is_valid_url(u, d)
    /\ CrawlStarted =>
          /\ \A u \in visited_urls \cup (DOMAIN extracted_data) :
                urlparse(u).netloc = urlparse(start_url).netloc
          /\ \A k \in DOMAIN stack :
                /\ urlparse(stack[k].url).netloc = urlparse(start_url).netloc
                /\ stack[k].pc # "enter" =>
                      stack[k].base_domain = urlparse(start_url).netloc

C2_Witness ==
    /\ CrawlDone
    /\ Cardinality(visited_urls) >= 2
    /\ \E u \in DOMAIN extracted_data : \E k \in DOMAIN extracted_data[u].links :
          LET link == extracted_data[u].links[k]
          IN  /\ urlparse(link).scheme = "http"
              /\ urlparse(link).netloc # urlparse(start_url).netloc
              /\ link \notin visited_urls

\* C3: links are followed depth-first in document order: the URLs are marked
\* visited in the order of the depth-first pre-order traversal, every pending
\* call waits in its loop for the call made for its previous link, and when
\* the crawl is over the visited URLs are the first max_pages of that order.
C3_DepthFirstOrder ==
    CrawlStarted =>
        LET ref == DfsOrder(ResolvedLinks, fails, start_url, 0, << >>)
        IN  /\ Len(VisitedSeq) <= Len(ref)
            /\ VisitedSeq = Prefix(ref, Len(VisitedSeq))
            /\ CrawlDone => Len(VisitedSeq) = Min(max_pages, Len(ref))
            /\ \A k \in 2..Len(stack) :
                  /\ stack[k].pc = "loop"
                  /\ stack[k].i >= 2
                  /\ stack[k - 1].url = stack[k].links[stack[k].i - 1]
                  /\ stack[k - 1].depth = stack[k].depth + 1

\* the page cap cut the crawl, and it kept a depth-2 page while a page linked
\* from the start page was left out
C3_Witness ==
    /\ CrawlDone
    /\ site = TreeSite /\ start_url = HomeA
    /\ visited_urls = {HomeA, PageB, PageD}
    /\ PageC \in Range(extracted_data[HomeA].links)
    /\ Len(DfsOrder(ResolvedLinks, fails, start_url, 0, << >>)) > max_pages

\* C4: a URL whose fetch fails gets no entry, its links are not followed, and
\* the crawl goes on: the URLs visited are those of the traversal of the site
\* in which the failed pages have no links.  A failed fetch never ends the
\* call: a call left by an exception was left at a URL that cannot be parsed
\* or at a page that was fetched and whose extraction raised.
C4_FailedFetchSkipped ==
    CrawlStarted =>
        /\ \A u \in Range(fetchLog) : u \in fails => u \notin DOMAIN extracted_data
        /\ \A u \in Range(fetchLog) :
              u \notin fails /\ ~PageRaises(u) => u \in DOMAIN extracted_data
        /\ CrawlRaised =>
              \/ fetchLog = << >> /\ urlparse_raises(start_url)
              \/ /\ fetchLog # << >>
                 /\ fetchLog[Len(fetchLog)] \notin fails
                 /\ PageRaises(fetchLog[Len(fetchLog)])
        /\ CrawlDone =>
              /\ DOMAIN extracted_data = visited_urls \ fails
              /\ VisitedSeq =
                    Prefix(DfsOrder(LinksWithoutFailed, {}, start_url, 0, << >>),
                           max_pages)

\* a page with links failed, and a later link of its parent was still visited
C4_Witness ==
    /\ CrawlDone
    /\ \E i \in DOMAIN visitOrder :
          /\ visitOrder[i][1] \in fails
          /\ site[visitOrder[i][1]].a # << >>
          /\ i >= 2 /\ i < Len(visitOrder)
          /\ visitOrder[i + 1][2] = visitOrder[i][2]
          /\ visitOrder[i + 1][1] \in DOMAIN extracted_data

\* C5: a CrawlResult, once returned, shows the same extracted_data map and the
\* same total_pages_scraped whatever extract_website_data is called later.
C5_ReturnedResultUnaltered ==
    \A i \in DOMAIN results :
        /\ Deref(results[i].extracted_data) = asReturned[i].extracted_data
        /\ results[i].total_pages_scraped =
              Cardinality(DOMAIN Deref(results[i].extracted_data))

\* C10: a URL is marked visited before it is fetched, no URL is fetched twice
\* in one crawl (a failed one included), and at most max_pages are fetched.
C10_FetchedAtMostOnce ==
    /\ \A i, j \in DOMAIN fetchLog : fetchLog[i] = fetchLog[j] => i = j
    /\ Len(fetchLog) <= max_pages
    /\ Range(fetchLog) \subseteq visited_urls
    /\ \A k \in DOMAIN stack :
          stack[k].pc = "fetch" =>
              stack[k].url \in visited_urls /\ stack[k].url \notin Range(fetchLog)

\* a URL whose fetch failed was linked again later on and was not fetched again
C10_Witness ==
    /\ CrawlDone
    /\ site = CyclicSite /\ start_url = HomeA
    /\ PageB \in fails /\ PageB \in Range(fetchLog)
    /\ PageC \in DOMAIN extracted_data
    /\ Len(fetchLog) = max_pages

(***************************************************************************)
(* Claims about the vectorizer.                                            *)
(***************************************************************************)
InputList == IF text_in.is_str THEN <<text_in.value>> ELSE text_in.value

\* the normalizations of the first n texts of the list that are longer than
\* 10 characters as given, in order
RECURSIVE KeptNormalized(_, _)
KeptNormalized(list, n) ==
    IF n = 0 THEN << >>
    ELSE KeptNormalized(list, n - 1)
         \o (IF Len(list[n]) > MinTextLen THEN <<Normalize(list[n])>> ELSE << >>)

IsLowerCollapsed(t) ==
    /\ \A i \in DOMAIN t : LowerChar(t[i]) = t[i]
    /\ \A i \in DOMAIN t : IsSpace(t[i]) =>
          t[i] = " " /\ i > 1 /\ i < Len(t) /\ ~IsSpace(t[i + 1])

\* C6 (as stated): every text whose normalized length is <= 10 is left out,
\* and every text whose normalized length is longer appears, normalized, in
\* input order.
C6_FilterOnNormalizedLength ==
    cleaned_text.returned =>
        /\ \A k \in DOMAIN cleaned_text.value : Len(cleaned_text.value[k]) > MinTextLen
        /\ \A i \in DOMAIN InputList :
              Len(Normalize(InputList[i])) > MinTextLen =>
                  \E k \in DOMAIN cleaned_text.value :
                      cleaned_text.value[k] = Normalize(InputList[i])

\* C6 (amended): every text whose raw length is <= 10 is left out, and the
\* output is, in input order, the normalization of every text whose raw
\* length is > 10: lower-cased, whitespace runs collapsed to one space, ends
\* stripped.
C6_FilterOnRawLength ==
    cleaned_text.returned =>
        /\ cleaned_text.value = KeptNormalized(InputList, Len(InputList))
        /\ \A k \in DOMAIN cleaned_text.value :
              IsLowerCollapsed(cleaned_text.value[k])
        /\ Len(cleaned_text.value) =
              Cardinality({i \in DOMAIN InputList : Len(InputList[i]) > MinTextLen})

\* a text longer than 10 characters only before normalization was kept, next
\* to a short text that was dropped
C6_Witness ==
    /\ cleaned_text.returned
    /\ Len(InputList) = 2
    /\ Len(InputList[1]) <= MinTextLen
    /\ Len(InputList[2]) > MinTextLen
    /\ Len(Normalize(InputList[2])) <= MinTextLen
    /\ cleaned_text.value = <<Normalize(InputList[2])>>

IndexedVectors == IF faiss_index.built THEN faiss_index.vectors ELSE << >>

\* C7: after any vectorize_website_data calls the index holds exactly the
\* vectors of the most recent call (none when that call yielded no text that
\* passes cleaning), and similarity_search fails while no index was built.
C7_IndexHoldsLastCallOnly ==
    /\ vecCalls = 0 => ~faiss_index.built
    /\ vecCalls > 0 => IndexedVectors = lastVectorize.vectors
    /\ lastSearch.status = "ValueError" => ~lastSearch.built

(***************************************************************************)
(* Claims about the vector store.                                          *)
(***************************************************************************)
RECURSIVE Flatten(_)
Flatten(batches) ==
    IF batches = << >> THEN << >> ELSE Head(batches) \o Flatten(Tail(batches))

\* C8: store of N documents makes ceil(N/100) collection.add calls, in
\* document order, each of 100 documents except the last, which holds the
\* rest; every document is written in exactly one batch, and count() has
\* grown by N.
C8_BatchedWrites ==
    LET N == Len(pending)
    IN  /\ storePc = "storing" =>
              /\ Flatten(addCalls) = Prefix(Ids(pending), batch_start)
              /\ \A k \in DOMAIN addCalls : k < Len(addCalls) =>
                    Len(addCalls[k]) = 100
        /\ storePc = "stored" =>
              /\ Len(addCalls) = (N + 99) \div 100
              /\ Flatten(addCalls) = Ids(pending)
              /\ \A k \in DOMAIN addCalls :
                    Len(addCalls[k]) =
                        IF k < Len(addCalls) \/ N % 100 = 0 THEN 100 ELSE N % 100
              /\ \A i, j \in DOMAIN pending :
                    pending[i].id = pending[j].id => i = j
              /\ get_collection_count = countBefore + N

\* 250 documents stored into a collection that was not empty
C8_Witness ==
    /\ storePc = "stored"
    /\ Len(pending) = 250
    /\ countBefore > 0
    /\ Len(addCalls) = 3
    /\ <<Len(addCalls[1]), Len(addCalls[2]), Len(addCalls[3])>> = <<100, 100, 50>>
    /\ get_collection_count = countBefore + 250

DeleteCalled == lastDelete.status # "never"

\* C9 (as stated): an id list that is given (not None) decides the deletion,
\* the filter being ignored; else a filter that is given; with neither the
\* call fails and the collection is unchanged.
C9_DispatchOnGiven ==
    DeleteCalled =>
        IF IsNotNone(lastDelete.ids)
        THEN /\ lastDelete.call = "ids"
             /\ collection = DeleteByIds(lastDelete.before, lastDelete.ids.value)
        ELSE IF IsNotNone(lastDelete.filter)
        THEN /\ lastDelete.call = "where"
             /\ collection = DeleteByFilter(lastDelete.before, lastDelete.filter.value)
        ELSE /\ lastDelete.status = "ValueError"
             /\ collection = lastDelete.before

NonEmpty(arg) == ~arg.none /\ arg.value # << >>

\* C9 (amended): a non-empty id list decides the deletion, the filter being
\* ignored; else a non-empty filter; when each is None or empty the call
\* fails with ValueError and the collection is unchanged.
C9_DispatchOnNonEmpty ==
    DeleteCalled =>
        IF NonEmpty(lastDelete.ids)
        THEN /\ lastDelete.status = "ok" /\ lastDelete.call = "ids"
             /\ \A d \in lastDelete.before :
                   d \in collection <=>
                       ~(\E k \in DOMAIN lastDelete.ids.value :
                            lastDelete.ids.value[k] = d.id)
             /\ collection \subseteq lastDelete.before
        ELSE IF NonEmpty(lastDelete.filter)
        THEN /\ lastDelete.status = "ok" /\ lastDelete.call = "where"
             /\ \A d \in lastDelete.before :
                   d \in collection <=>
                       d.content_type # lastDelete.filter.value[1][2]
             /\ collection \subseteq lastDelete.before
        ELSE /\ lastDelete.status = "ValueError" /\ lastDelete.call = "none"
             /\ collection = lastDelete.before

\* an empty id list came with a filter, and the filter decided the deletion
C9_Witness ==
    /\ DeleteCalled
    /\ ~lastDelete.ids.none /\ lastDelete.ids.value = << >>
    /\ NonEmpty(lastDelete.filter)
    /\ lastDelete.call = "where"
    /\ collection # lastDelete.before
    /\ collection # {}

(***************************************************************************)
(* Termination of the crawler.                                             *)
(***************************************************************************)

\* C11: every extract_website_data call that has started eventually returns
\* its CrawlResult, whatever the site, max_depth, max_pages and the outcome
\* of each fetch.
C11_CrawlTerminates ==
    (phase = "crawling") ~> (phase = "idle" /\ ~raised)

\* every call that has started is eventually over, by a return or by an
\* exception
CrawlEnds == (phase = "crawling") ~> (phase = "idle")

====
